---------------------------- MODULE Spec2Model ----------------------------
(***************************************************************************)
(* Model of scripts/generate_stats.py (Mibao Family Contribution Stats).   *)
(*                                                                         *)
(* Four specifications share the variables below:                          *)
(*   Spec          a run of main(): get_contributions_collection, the      *)
(*                 calendar loop of get_all_contributions and the          *)
(*                 repository discovery request;                           *)
(*   SpecStreak    calculate_streak and calculate_max_streak applied to    *)
(*                 contribution maps, with the system clock they read;     *)
(*   SpecHeatmap   the calendar built by generate_contribution_heatmap;    *)
(*   SpecCommits   the pagination loop of get_repo_commits.                *)
(*                                                                         *)
(* A date string "YYYY-MM-DD" is modelled as the triple <<Y, M, D>> of its  *)
(* three zero-padded fields; strftime and strptime convert between such a  *)
(* triple and a day ordinal (datetime.toordinal).                          *)
(***************************************************************************)
EXTENDS Integers, Sequences, FiniteSets

VARIABLES
    pc,                     \* control point of the modelled function
    response,               \* Spec: the GraphQL calendar response
    idx,                    \* Spec: next calendar day record (iteration order)
    contributions_by_date,  \* the map date string -> count
    exc,                    \* Spec: the exception that ended the run, or "none"
    clock,                  \* day ordinal the system clock (datetime.now) reads
    locals,                 \* SpecStreak: local variables of the running function
    results,                \* SpecStreak: evaluations of calculate_streak
    max_streak,             \* SpecStreak: <<result>> of calculate_max_streak, <<>> before
    weeks,                  \* SpecHeatmap: the weeks list of the heatmap
    page,                   \* SpecCommits: local variable page
    commits,                \* SpecCommits: local variable commits
    requests                \* SpecCommits: the requests issued and their answers

vars == <<pc, response, idx, contributions_by_date, exc, clock, locals, results,
          max_streak, weeks, page, commits, requests>>

--------------------------------------------------------------------------
(* Small helpers *)

Min(S) == CHOOSE x \in S : \A y \in S : x <= y

Max(S) == CHOOSE x \in S : \A y \in S : x >= y

EmptyMap == [k \in {} |-> 0]

\* contributions_by_date.get(date, 0)
Get(map, date) == IF date \in DOMAIN map THEN map[date] ELSE 0

\* contributions_by_date[date] = count
Put(map, date, count) ==
    [k \in DOMAIN map \cup {date} |-> IF k = date THEN count ELSE map[k]]

--------------------------------------------------------------------------
(* Calendar arithmetic of datetime (proleptic Gregorian calendar) *)

IsLeap(y) == (y % 4 = 0 /\ y % 100 # 0) \/ y % 400 = 0

DaysInMonth(y, m) ==
    IF m = 2 THEN (IF IsLeap(y) THEN 29 ELSE 28)
    ELSE IF m \in {4, 6, 9, 11} THEN 30 ELSE 31

DaysBeforeYear(y) ==
    (y - 1) * 365 + ((y - 1) \div 4) - ((y - 1) \div 100) + ((y - 1) \div 400)

RECURSIVE DaysBeforeMonth(_, _)
DaysBeforeMonth(y, m) ==
    IF m <= 1 THEN 0 ELSE DaysBeforeMonth(y, m - 1) + DaysInMonth(y, m - 1)

\* A date string names a real calendar day (strptime accepts it).
IsValidDate(s) ==
    /\ s[1] \in 1..9999
    /\ s[2] \in 1..12
    /\ s[3] \in 1..DaysInMonth(s[1], s[2])

\* datetime.strptime(s, "%Y-%m-%d") as a day ordinal; ValueError otherwise.
ValueError == -1

strptime(s) ==
    IF IsValidDate(s)
    THEN DaysBeforeYear(s[1]) + DaysBeforeMonth(s[1], s[2]) + s[3]
    ELSE ValueError

\* Year, and zero-based day of that year, of a day ordinal.
YearOf(n) ==
    LET n0   == n - 1
        n400 == n0 \div 146097
        r400 == n0 % 146097
        n100 == r400 \div 36524
        r100 == r400 % 36524
        n4   == r100 \div 1461
        r4   == r100 % 1461
        n1   == r4 \div 365
        r1   == r4 % 365
        y    == n400 * 400 + 1 + n100 * 100 + n4 * 4 + n1
    IN  IF n1 = 4 \/ n100 = 4 THEN <<y - 1, 365>> ELSE <<y, r1>>

RECURSIVE MonthOf(_, _, _)
MonthOf(y, m, rest) ==
    IF rest < DaysInMonth(y, m) THEN <<m, rest + 1>>
    ELSE MonthOf(y, m + 1, rest - DaysInMonth(y, m))

\* date.strftime("%Y-%m-%d") of the day with ordinal n.
strftime(n) ==
    LET yd == YearOf(n)
        md == MonthOf(yd[1], 1, yd[2])
    IN  <<yd[1], md[1], md[2]>>

\* date.weekday(): Monday is 0.
weekday(n) == (n + 6) % 7

\* Order of two date strings as Python compares str: character by
\* character, which for zero-padded fields is field by field.
StrLess(a, b) ==
    \/ a[1] < b[1]
    \/ a[1] = b[1] /\ a[2] < b[2]
    \/ a[1] = b[1] /\ a[2] = b[2] /\ a[3] < b[3]

--------------------------------------------------------------------------
(* Bounds of the inputs *)

MaxWeeks == 2          \* weeks in a calendar response

MaxDaysPerWeek == 2    \* contributionDays in one week of the response

MaxCount == 2          \* largest contributionCount of an input record

BaseDay == 738946      \* ordinal of 2024-03-01, the first clock reading

\* Sequences over S of length at most n.
SeqUpTo(S, n) == UNION {[1..k -> S] : k \in 0..n}

--------------------------------------------------------------------------
(* Spec: a run of main() *)

\* The date strings an input record may carry: two real days and
\* "2024-02-30", which has the YYYY-MM-DD shape and names no day.
InputDates == {strftime(BaseDay - 1), strftime(BaseDay), <<2024, 2, 30>>}

\* The contributionDays records of a response; the last kind has no
\* "date" key.
DayRecords ==
    [date : InputDates, contributionCount : 0..MaxCount]
        \cup [contributionCount : {1}]

\* What the GraphQL endpoint may answer to get_contributions_collection:
\* a non-200 status, or a 200 with a calendar (weeks may be empty).
CalendarResponses ==
    [status : {500}, weeks : {<<>>}]
        \cup [status : {200},
              weeks : SeqUpTo(SeqUpTo(DayRecords, MaxDaysPerWeek), MaxWeeks)]

\* The day records in the order the two nested for loops visit them.
RECURSIVE IterationOrder(_)
IterationOrder(ws) ==
    IF ws = <<>> THEN <<>> ELSE Head(ws) \o IterationOrder(Tail(ws))

\* calendar.get("weeks", []) of the collection the fetch returned
\* ({} on a non-200 status).
CalendarWeeks == IF response.status = 200 THEN response.weeks ELSE <<>>

NoLocals == [none |-> TRUE]

Idle ==
    /\ clock = BaseDay
    /\ locals = NoLocals
    /\ results = <<>>
    /\ max_streak = <<>>
    /\ weeks = <<>>
    /\ page = 1
    /\ commits = <<>>
    /\ requests = <<>>

Init ==
    /\ pc = "get_contributions_collection"
    /\ response \in CalendarResponses
    /\ idx = 1
    /\ contributions_by_date = EmptyMap
    /\ exc = "none"
    /\ Idle

\* get_contributions_collection returns the collection of a 200 response
\* and {} otherwise (CalendarWeeks reads it); the calendar loop follows.
get_contributions_collection ==
    /\ pc = "get_contributions_collection"
    /\ pc' = "calendar_loop"
    /\ UNCHANGED <<response, idx, contributions_by_date, exc, clock, locals,
                   results, max_streak, weeks, page, commits, requests>>

\* One pass of the body of the calendar loop: day["date"] and
\* day["contributionCount"] are subscripts, the store is an assignment.
calendar_day ==
    /\ pc = "calendar_loop"
    /\ idx <= Len(IterationOrder(CalendarWeeks))
    /\ LET day == IterationOrder(CalendarWeeks)[idx]
       IN  IF "date" \in DOMAIN day
           THEN /\ contributions_by_date' =
                       Put(contributions_by_date, day.date, day.contributionCount)
                /\ idx' = idx + 1
                /\ UNCHANGED <<pc, exc>>
           ELSE /\ pc' = "raised"
                /\ exc' = "KeyError"
                /\ UNCHANGED <<idx, contributions_by_date>>
    /\ UNCHANGED <<response, clock, locals, results, max_streak, weeks, page, commits,
                   requests>>

\* The loop is exhausted.
calendar_done ==
    /\ pc = "calendar_loop"
    /\ idx > Len(IterationOrder(CalendarWeeks))
    /\ pc' = "discover"
    /\ UNCHANGED <<response, idx, contributions_by_date, exc, clock, locals, results,
                   max_streak, weeks, page, commits, requests>>

\* requests.post(..., headers=headers): get_all_contributions binds no
\* name headers and the module has no global of that name, so evaluating
\* the argument raises NameError. Nothing catches it: main() ends here,
\* and the repository scan, the streaks and the outputs are never reached.
discover_repositories ==
    /\ pc = "discover"
    /\ pc' = "raised"
    /\ exc' = "NameError"
    /\ UNCHANGED <<response, idx, contributions_by_date, clock, locals, results,
                   max_streak, weeks, page, commits, requests>>

Next ==
    \/ get_contributions_collection
    \/ calendar_day
    \/ calendar_done
    \/ discover_repositories

Spec == Init /\ [][Next]_vars

--------------------------------------------------------------------------
(* SpecStreak: calculate_streak and calculate_max_streak, as main() calls  *)
(* them on one contribution map                                            *)

\* A lookback of 400 days in place of 365.
LookbackDaysLonger == 365 + 35

LookbackDays == 365    \* range(365) of calculate_streak

WindowLen == 4         \* days of the window the small maps draw their keys from

MaxTicks == 2          \* midnights the clock may pass

MaxEvals == 2          \* evaluations of calculate_streak on one map

\* The dates of the WindowLen days up to the first clock reading
\* (2024-02-27 .. 2024-03-01: the window spans a leap day and a month end).
WindowDates == {strftime(BaseDay - j) : j \in 0..(WindowLen - 1)}

\* Every map with keys in the window and counts 0..MaxCount.
SmallMaps == UNION {[D -> 0..MaxCount] : D \in SUBSET WindowDates}

\* The map holding count 1 for every day first..last (ordinals).
RunMap(first, last) == [d \in {strftime(n) : n \in first..last} |-> 1]

\* Unbroken runs around the lookback: 363 to 366 and 399 or 400 days long,
\* ending on the first clock reading or the day before it.
LongMaps ==
    {RunMap(BaseDay - s, BaseDay - e) : s \in {363, 364, 365, 399}, e \in {0, 1}}

\* Maps the calendar loop can produce from a record whose date names no
\* day: the key "2024-02-30" beside at most one real day.
MalformedMaps ==
    {Put(m, <<2024, 2, 30>>, c) :
        m \in UNION {[D -> 0..MaxCount] : D \in SUBSET {strftime(BaseDay)}},
        c \in 0..MaxCount}

InitStreak ==
    /\ pc = "main_381"
    /\ contributions_by_date \in SmallMaps \cup LongMaps \cup MalformedMaps
    /\ clock = BaseDay
    /\ locals = NoLocals
    /\ results = <<>>
    /\ max_streak = <<>>
    /\ response = [status |-> 200, weeks |-> <<>>]
    /\ idx = 1
    /\ exc = "none"
    /\ weeks = <<>>
    /\ page = 1
    /\ commits = <<>>
    /\ requests = <<>>

\* calculate_streak is entered: today = datetime.now(), streak = 0.
calculate_streak_enter ==
    /\ pc = "main_381"
    /\ locals' = [today |-> clock, i |-> 0, streak |-> 0]
    /\ pc' = "streak_loop"
    /\ UNCHANGED <<response, idx, contributions_by_date, exc, clock, results,
                   max_streak, weeks, page, commits, requests>>

\* Variant of streak_step in which a zero on today ends the walk too.
streak_step_strict ==
    /\ pc = "streak_loop"
    /\ locals.i < LookbackDays
    /\ LET date == strftime(locals.today - locals.i)
       IN  IF Get(contributions_by_date, date) > 0
           THEN /\ locals' = [locals EXCEPT !.i = @ + 1, !.streak = @ + 1]
                /\ pc' = pc
           ELSE /\ locals' = locals
                /\ pc' = "streak_return"
    /\ UNCHANGED <<response, idx, contributions_by_date, exc, clock, results,
                   max_streak, weeks, page, commits, requests>>

\* One pass of the for loop of calculate_streak.
streak_step ==
    /\ pc = "streak_loop"
    /\ locals.i < LookbackDays
    /\ LET date == strftime(locals.today - locals.i)
       IN  IF Get(contributions_by_date, date) > 0
           THEN /\ locals' = [locals EXCEPT !.i = @ + 1, !.streak = @ + 1]
                /\ pc' = pc
           ELSE IF locals.i > 0
                THEN /\ locals' = locals
                     /\ pc' = "streak_return"
                ELSE /\ locals' = [locals EXCEPT !.i = @ + 1]
                     /\ pc' = pc
    /\ UNCHANGED <<response, idx, contributions_by_date, exc, clock, results,
                   max_streak, weeks, page, commits, requests>>

\* range(365) is exhausted.
streak_exhausted ==
    /\ pc = "streak_loop"
    /\ locals.i >= LookbackDays
    /\ pc' = "streak_return"
    /\ UNCHANGED <<response, idx, contributions_by_date, exc, clock, locals,
                   results, max_streak, weeks, page, commits, requests>>

\* return streak; the value read from the clock is recorded beside it.
calculate_streak_return ==
    /\ pc = "streak_return"
    /\ results' = Append(results,
                         [today |-> locals.today, streak |-> locals.streak])
    /\ pc' = IF max_streak = <<>> THEN "main_382" ELSE "done"
    /\ locals' = NoLocals
    /\ UNCHANGED <<response, idx, contributions_by_date, exc, clock,
                   max_streak, weeks, page, commits, requests>>

\* prev_date = None
NoDate == 0

\* sorted(contributions_by_date.keys()): the keys in ascending str order
\* (split around the median key, so that the recursion stays shallow).
RECURSIVE sorted(_)
sorted(keys) ==
    IF keys = {} THEN <<>>
    ELSE LET pivot == CHOOSE d \in keys :
                 Cardinality({e \in keys : StrLess(e, d)}) = Cardinality(keys) \div 2
         IN  sorted({e \in keys : StrLess(e, pivot)})
                 \o <<pivot>>
                 \o sorted({e \in keys : StrLess(pivot, e)})

\* calculate_max_streak is entered.
calculate_max_streak_enter ==
    /\ pc = "main_382"
    /\ locals' = [sorted_dates |-> sorted(DOMAIN contributions_by_date),
                  k |-> 1, prev_date |-> NoDate, current_streak |-> 0,
                  max_streak |-> 0]
    /\ pc' = "max_streak_loop"
    /\ UNCHANGED <<response, idx, contributions_by_date, exc, clock, results,
                   max_streak, weeks, page, commits, requests>>

\* Variant of max_streak_step in which an entry of count 0 becomes the
\* previous date as well.
max_streak_step_prev_any ==
    /\ pc = "max_streak_loop"
    /\ locals.k <= Len(locals.sorted_dates)
    /\ LET date_str == locals.sorted_dates[locals.k]
           current == strptime(date_str)
           run == IF locals.prev_date # NoDate /\ current - locals.prev_date = 1
                  THEN locals.current_streak + 1 ELSE 1
       IN  IF contributions_by_date[date_str] > 0
           THEN locals' = [locals EXCEPT !.k = @ + 1, !.prev_date = current,
                                         !.current_streak = run,
                                         !.max_streak = Max({@, run})]
           ELSE locals' = [locals EXCEPT !.k = @ + 1, !.prev_date = current]
    /\ UNCHANGED <<pc, response, idx, contributions_by_date, exc, clock, results,
                   max_streak, weeks, page, commits, requests>>

\* Variant of max_streak_step in which a new run starts at length 0.
max_streak_step_reset0 ==
    /\ pc = "max_streak_loop"
    /\ locals.k <= Len(locals.sorted_dates)
    /\ LET date_str == locals.sorted_dates[locals.k]
           current == strptime(date_str)
           run == IF locals.prev_date # NoDate /\ current - locals.prev_date = 1
                  THEN locals.current_streak + 1 ELSE 0
       IN  IF contributions_by_date[date_str] > 0
           THEN locals' = [locals EXCEPT !.k = @ + 1, !.prev_date = current,
                                         !.current_streak = run,
                                         !.max_streak = Max({@, run})]
           ELSE locals' = [locals EXCEPT !.k = @ + 1]
    /\ UNCHANGED <<pc, response, idx, contributions_by_date, exc, clock, results,
                   max_streak, weeks, page, commits, requests>>

\* One pass of the for loop of calculate_max_streak. strptime raises
\* ValueError on a key that names no day; nothing catches it.
max_streak_step ==
    /\ pc = "max_streak_loop"
    /\ locals.k <= Len(locals.sorted_dates)
    /\ LET date_str == locals.sorted_dates[locals.k]
           current == strptime(date_str)
           run == IF locals.prev_date # NoDate /\ current - locals.prev_date = 1
                  THEN locals.current_streak + 1 ELSE 1
       IN  IF contributions_by_date[date_str] > 0
           THEN IF current = ValueError
                THEN /\ pc' = "raised"
                     /\ exc' = "ValueError"
                     /\ locals' = locals
                ELSE /\ locals' = [locals EXCEPT !.k = @ + 1,
                                                 !.prev_date = current,
                                                 !.current_streak = run,
                                                 !.max_streak = Max({@, run})]
                     /\ UNCHANGED <<pc, exc>>
           ELSE /\ locals' = [locals EXCEPT !.k = @ + 1]
                /\ UNCHANGED <<pc, exc>>
    /\ UNCHANGED <<response, idx, contributions_by_date, clock, results,
                   max_streak, weeks, page, commits, requests>>

\* sorted_dates is exhausted: return max_streak.
calculate_max_streak_return ==
    /\ pc = "max_streak_loop"
    /\ locals.k > Len(locals.sorted_dates)
    /\ max_streak' = <<locals.max_streak>>
    /\ pc' = "done"
    /\ locals' = NoLocals
    /\ UNCHANGED <<response, idx, contributions_by_date, exc, clock, results,
                   weeks, page, commits, requests>>

\* A further evaluation of calculate_streak on the same map.
evaluate_again ==
    /\ pc = "done"
    /\ Len(results) < MaxEvals
    /\ pc' = "main_381"
    /\ UNCHANGED <<response, idx, contributions_by_date, exc, clock, locals,
                   results, max_streak, weeks, page, commits, requests>>

\* The system clock passes midnight. Both functions read the clock on
\* entry only, so it is enough to let it pass between two calls.
tick ==
    /\ pc \in {"main_381", "main_382", "done"}
    /\ clock < BaseDay + MaxTicks
    /\ clock' = clock + 1
    /\ UNCHANGED <<pc, response, idx, contributions_by_date, exc, locals,
                   results, max_streak, weeks, page, commits, requests>>

NextStreak ==
    \/ calculate_streak_enter
    \/ streak_step
    \/ streak_exhausted
    \/ calculate_streak_return
    \/ calculate_max_streak_enter
    \/ max_streak_step
    \/ calculate_max_streak_return
    \/ evaluate_again
    \/ tick

SpecStreak == InitStreak /\ [][NextStreak]_vars

--------------------------------------------------------------------------
(* SpecHeatmap: the calendar of generate_contribution_heatmap *)

HeatClockSpan == 7     \* clock readings BaseDay .. BaseDay + HeatClockSpan

MaxHeatCount == 11     \* largest count of a map handed to the heatmap

\* The fill colour of a cell.
cell_color(count) ==
    IF count = 0 THEN "#ebedf0"
    ELSE IF count <= 2 THEN "#9be9a8"
    ELSE IF count <= 5 THEN "#40c463"
    ELSE IF count <= 10 THEN "#30a14e"
    ELSE "#216e39"

\* Variant of generate_contribution_heatmap that does not move start_date
\* back to the Monday of its week.
generate_contribution_heatmap_unaligned(map, now) ==
    LET start_date == now - 364
    IN  [w \in 1..53 |->
            [d \in 1..7 |->
                LET date_str == strftime(start_date + (w - 1) * 7 + (d - 1))
                    count == Get(map, date_str)
                IN  [date |-> date_str, contributionCount |-> count,
                     color |-> cell_color(count)]]]

\* The weeks list generate_contribution_heatmap builds; now is what
\* datetime.now() returns. week_idx is w - 1 and day_idx is d - 1.
generate_contribution_heatmap(map, now) ==
    LET start0 == now - 364
        start_date == start0 - weekday(start0)
    IN  [w \in 1..53 |->
            [d \in 1..7 |->
                LET date_str == strftime(start_date + (w - 1) * 7 + (d - 1))
                    count == Get(map, date_str)
                IN  [date |-> date_str, contributionCount |-> count,
                     color |-> cell_color(count)]]]

\* Keys of the maps handed to the heatmap: today's first reading and the
\* day 364 days before it.
HeatDates == {strftime(BaseDay), strftime(BaseDay - 364)}

HeatMaps == UNION {[D -> 0..MaxHeatCount] : D \in SUBSET HeatDates}

InitHeatmap ==
    /\ pc = "main_403"
    /\ contributions_by_date \in HeatMaps
    /\ clock \in BaseDay..(BaseDay + HeatClockSpan)
    /\ weeks = <<>>
    /\ locals = NoLocals
    /\ results = <<>>
    /\ max_streak = <<>>
    /\ response = [status |-> 200, weeks |-> <<>>]
    /\ idx = 1
    /\ exc = "none"
    /\ page = 1
    /\ commits = <<>>
    /\ requests = <<>>

\* svg_content = generate_contribution_heatmap(contributions_by_date, ...)
render_heatmap ==
    /\ pc = "main_403"
    /\ weeks' = generate_contribution_heatmap(contributions_by_date, clock)
    /\ pc' = "rendered"
    /\ UNCHANGED <<response, idx, contributions_by_date, exc, clock, locals,
                   results, max_streak, page, commits, requests>>

NextHeatmap == render_heatmap

SpecHeatmap == InitHeatmap /\ [][NextHeatmap]_vars

--------------------------------------------------------------------------
(* SpecCommits: the pagination loop of get_repo_commits *)

PerPage == 100         \* "per_page": 100 and len(data) < 100

MaxPages == 10         \* if page > 10: break

\* The items of a page: the server answers a request for page p with n
\* commits, each told apart by its page and its place in it.
PageData(p, n) == [j \in 1..n |-> <<p, j>>]

\* What the server may answer: a non-200 status, or 200 with a list of at
\* most per_page commits (the request asks for per_page = 100).
PageResponses ==
    [status : {404, 409}, n : {0}] \cup [status : {200}, n : 0..PerPage]

InitCommits ==
    /\ pc = "request"
    /\ page = 1
    /\ commits = <<>>
    /\ requests = <<>>
    /\ contributions_by_date = EmptyMap
    /\ clock = BaseDay
    /\ weeks = <<>>
    /\ locals = NoLocals
    /\ results = <<>>
    /\ max_streak = <<>>
    /\ response = [status |-> 200, weeks |-> <<>>]
    /\ idx = 1
    /\ exc = "none"

\* Variant of fetch_page without the break on a page shorter than 100.
fetch_page_no_short_break ==
    /\ pc = "request"
    /\ \E r \in PageResponses :
        LET data == PageData(page, r.n)
        IN  /\ requests' = Append(requests,
                   [page |-> page, status |-> r.status, data |-> data])
            /\ IF r.status # 200 \/ data = <<>>
               THEN pc' = "returned" /\ UNCHANGED <<commits, page>>
               ELSE /\ commits' = commits \o data
                    /\ page' = page + 1
                    /\ pc' = IF page + 1 > MaxPages THEN "returned" ELSE pc
    /\ UNCHANGED <<response, idx, contributions_by_date, exc, clock, locals,
                   results, max_streak, weeks>>

\* One pass of the while loop: the request for the current page and what
\* the loop does with the answer.
fetch_page ==
    /\ pc = "request"
    /\ \E r \in PageResponses :
        LET data == PageData(page, r.n)
        IN  /\ requests' = Append(requests,
                   [page |-> page, status |-> r.status, data |-> data])
            /\ IF r.status # 200 \/ data = <<>>
               THEN pc' = "returned" /\ UNCHANGED <<commits, page>>
               ELSE /\ commits' = commits \o data
                    /\ IF Len(data) < PerPage
                       THEN pc' = "returned" /\ page' = page
                       ELSE /\ page' = page + 1
                            /\ pc' = IF page + 1 > MaxPages
                                     THEN "returned" ELSE pc
    /\ UNCHANGED <<response, idx, contributions_by_date, exc, clock, locals,
                   results, max_streak, weeks>>

NextCommits == fetch_page

SpecCommits == InitCommits /\ [][NextCommits]_vars

--------------------------------------------------------------------------
(* Properties of the aggregation and of the run of main() (Spec) *)

\* Sum of the contributionCount of the first n day records dated d.
RECURSIVE DayCountSum(_, _, _)
DayCountSum(days, n, d) ==
    IF n = 0 THEN 0
    ELSE DayCountSum(days, n - 1, d)
             + (IF "date" \in DOMAIN days[n] /\ days[n].date = d
                THEN days[n].contributionCount ELSE 0)

\* C1: aggregation is additive: while the records are merged and when all
\* are merged, the count stored for a date is the sum of the counts of
\* every record merged so far that carries this date; no record overwrites
\* another one.
C1_AdditiveAggregation ==
    pc \in {"calendar_loop", "discover"} =>
        \A d \in {x \in InputDates : IsValidDate(x)} :
            Get(contributions_by_date, d)
                = DayCountSum(IterationOrder(CalendarWeeks), idx - 1, d)

\* C2: a record whose date is missing or names no day is skipped: it
\* raises nothing and leaves no key in the map, so that every key is a
\* date the streak functions can parse.
C2_MalformedSkipped ==
    /\ exc # "KeyError"
    /\ \A d \in DOMAIN contributions_by_date : strptime(d) # ValueError

\* C3: a run of main() never stops in an error state, whatever the data
\* source answers. Stated for the answers the claim names, a failed and an
\* empty calendar response, which hold no record that could be malformed.
C3_RunCompletes ==
    IterationOrder(CalendarWeeks) = <<>> => pc # "raised"

--------------------------------------------------------------------------
(* Properties of the streak functions (SpecStreak) *)

\* The day with ordinal n has a count > 0 in map.
Positive(map, n) == Get(map, strftime(n)) > 0

\* Number of consecutive days n, n-1, ... with a count > 0 in map, up to
\* the first day with count 0 or absent.
RunBack(map, n) ==
    Min({k \in 0..Cardinality(DOMAIN map) : ~Positive(map, n - k)})

\* calculate_streak is about to return.
StreakReturns == pc = "streak_return"

\* C4 as stated: the result is the full length of the run ending today,
\* or ending yesterday when today has no contribution.
C4_ForgivesTodayOnly ==
    StreakReturns =>
        locals.streak =
            IF Positive(contributions_by_date, locals.today)
            THEN RunBack(contributions_by_date, locals.today)
            ELSE RunBack(contributions_by_date, locals.today - 1)

\* C4 amended: the same run, counted inside the lookback window only: the
\* days today .. today-364, so at most 365 days, and at most 364 when
\* today's zero is forgiven.
C4_ForgivesTodayWithinLookback ==
    StreakReturns =>
        locals.streak =
            IF Positive(contributions_by_date, locals.today)
            THEN Min({RunBack(contributions_by_date, locals.today), 365})
            ELSE Min({RunBack(contributions_by_date, locals.today - 1), 364})

\* Today is in the map with count 0 and the two days before it count.
C4_Witness ==
    /\ StreakReturns
    /\ strftime(locals.today) \in DOMAIN contributions_by_date
    /\ contributions_by_date[strftime(locals.today)] = 0
    /\ locals.streak = 2

\* Every day today .. today-399 has a count > 0.
FullRun400 ==
    \A j \in 0..399 : Positive(contributions_by_date, locals.today - j)

\* C5: the walk makes at most 365 passes, the result is at most 365, and
\* it is exactly 365 when every day today .. today-399 has a count > 0.
C5_LookbackBound ==
    /\ pc \in {"streak_loop", "streak_return"} =>
           locals.i <= 365 /\ locals.streak <= 365
    /\ StreakReturns /\ FullRun400 => locals.streak = 365

C5_Witness == StreakReturns /\ FullRun400 /\ locals.streak = 365

\* Every key of the map names a day and no count is negative.
ValidMap(map) == \A d \in DOMAIN map : IsValidDate(d) /\ map[d] >= 0

\* Ordinals of the days with a count > 0.
PositiveDays(map) == {strptime(d) : d \in {x \in DOMAIN map : map[x] > 0}}

\* Length of the longest run of consecutive ordinals in P.
LongestRunIn(P) ==
    Max({0} \cup {Min({k \in 1..Cardinality(P) : (n - k) \notin P}) :
                     n \in {m \in P : (m + 1) \notin P}})

\* calculate_max_streak is about to return.
MaxStreakReturns ==
    pc = "max_streak_loop" /\ locals.k > Len(locals.sorted_dates)

\* C6: on a map with valid keys and non-negative counts the result is the
\* length of the longest run of consecutive calendar days with count > 0.
\* It is a function of the days with count > 0 alone: an entry of count 0
\* weighs like an absent date.
C6_LongestRun ==
    MaxStreakReturns /\ ValidMap(contributions_by_date) =>
        locals.max_streak = LongestRunIn(PositiveDays(contributions_by_date))

\* Three days count, an entry of count 0 lies in the map, the longest run
\* is 2.
C6_Witness ==
    /\ MaxStreakReturns
    /\ ValidMap(contributions_by_date)
    /\ \E d \in DOMAIN contributions_by_date : contributions_by_date[d] = 0
    /\ Cardinality(PositiveDays(contributions_by_date)) = 3
    /\ locals.max_streak = 2

\* C7: the current streak is a function of the map and of a today the
\* caller supplies: any two evaluations on the same map give the same
\* value, whatever the system clock reads at each.
C7_ClockIndependent ==
    \A a, b \in DOMAIN results : results[a].streak = results[b].streak

\* C8: 0 <= calculate_streak <= calculate_max_streak on the same valid map.
C8_StreakAtMostMax ==
    max_streak # <<>> /\ ValidMap(contributions_by_date) =>
        \A a \in DOMAIN results :
            0 <= results[a].streak /\ results[a].streak <= max_streak[1]

\* A current streak that is positive and shorter than the maximum.
C8_Witness ==
    /\ max_streak # <<>>
    /\ ValidMap(contributions_by_date)
    /\ \E a \in DOMAIN results :
           0 < results[a].streak /\ results[a].streak < max_streak[1]

--------------------------------------------------------------------------
(* Properties of the heatmap calendar (SpecHeatmap) *)

\* The n-th cell of the calendar, n = 0 .. 370, week after week.
Cell(n) == weeks[(n \div 7) + 1][(n % 7) + 1]

\* The colour the claim gives a count: 0; 1-2; 3-5; 6-10; more than 10.
ColourOfCount(count) ==
    IF count = 0 THEN "#ebedf0"
    ELSE IF count \in 1..2 THEN "#9be9a8"
    ELSE IF count \in 3..5 THEN "#40c463"
    ELSE IF count \in 6..10 THEN "#30a14e"
    ELSE "#216e39"

\* C9: the heatmap calendar is dense: 53 weeks of 7 cells, 371 consecutive
\* calendar days (each cell the day after the cell before it) starting on
\* a Monday, from no later than today-364 to no earlier than today, so
\* that today and the 364 days before it are in it; a cell holds the map's
\* count for its date, 0 when the date is absent, and the colour of that
\* count.
C9_DenseCalendar ==
    pc = "rendered" =>
        /\ Len(weeks) = 53
        /\ \A w \in 1..53 : Len(weeks[w]) = 7
        /\ \A n \in 0..370 : strptime(Cell(n).date) # ValueError
        /\ \A n \in 0..369 :
               strptime(Cell(n + 1).date) = strptime(Cell(n).date) + 1
        /\ weekday(strptime(Cell(0).date)) = 0
        /\ strptime(Cell(0).date) <= clock - 364
        /\ strptime(Cell(370).date) >= clock
        /\ \A n \in 0..370 :
               /\ Cell(n).contributionCount =
                      (IF Cell(n).date \in DOMAIN contributions_by_date
                       THEN contributions_by_date[Cell(n).date] ELSE 0)
               /\ Cell(n).color = ColourOfCount(Cell(n).contributionCount)

\* A calendar whose first cell lies before today-364 and which shows a
\* count above 10 and a count of 1 or 2.
C9_Witness ==
    /\ pc = "rendered"
    /\ strptime(Cell(0).date) < clock - 364
    /\ \E n \in 0..370 : Cell(n).contributionCount > 10
    /\ \E n \in 0..370 : Cell(n).contributionCount \in 1..2

--------------------------------------------------------------------------
(* Properties of the pagination loop (SpecCommits) *)

\* The pages received with status 200, in page order, end to end.
RECURSIVE ReceivedCommits(_)
ReceivedCommits(n) ==
    IF n = 0 THEN <<>>
    ELSE ReceivedCommits(n - 1)
             \o (IF requests[n].status = 200 THEN requests[n].data ELSE <<>>)

\* The answer to request n ends the loop: non-200, empty or shorter than
\* 100 items.
Stopping(n) ==
    \/ requests[n].status # 200
    \/ Len(requests[n].data) < 100

==========================================================================
